---- MODULE Spec2Model ----
(***************************************************************************)
(* spiritchat: the data store (src/data/store.go), its PostgreSQL schema   *)
(* and stored procedure (src/db/migrate_up.sql) and the Redis rate         *)
(* limiter.                                                                *)
(*                                                                         *)
(* Spec   : the PostgreSQL side.  cats and posts hold the COMMITTED rows;  *)
(*          a statement sent with pgPool.Exec outside a transaction is one *)
(*          implicit transaction.  CALL write_post runs its statements one *)
(*          by one inside one transaction, holding the row lock of the     *)
(*          category taken by SELECT ... FOR UPDATE until it commits or    *)
(*          rolls back; its uncommitted row lives in wp[w] only.           *)
(* SpecSeq: the PostgreSQL side with the store called by one client, one   *)
(*          call after the other, as the integration tests call it; the    *)
(*          views are operators on the committed rows.                     *)
(* SpecRL : the Redis side.  redis maps a key to its remaining time to     *)
(*          live in milliseconds; Tick lets one millisecond pass.          *)
(***************************************************************************)
EXTENDS Integers, Sequences, FiniteSets, TLC

\* ---- bounds ----
MaxPostCount == 2
MaxMs == 2
MaxThreadPosts == 3
MaxRejected == 2

\* ---- inputs ----
Tags == {"beep", "bonk"}
Users == {"u1", "u2"}
Writers == {"w1", "w2"}
Limiters == {"l1", "l2"}
Parents == 0..(MaxPostCount - 1)
Identifiers == {<<"1">>}
Resources == {<<"p">>, <<"g">>}
Durations == (-1)..MaxMs
SepIdentifiers == {<<"1">>, <<"1", "-", "p">>}
SepResources == {<<"p">>, <<"p", "-", "p">>}
ThreadNums == 0..MaxThreadPosts

\* PEXPIRE has not been applied to the key: it never expires
NoTTL == -1

NoWriter == "none"

VARIABLES
    cats,       \* committed rows of table cats: tag -> post_count
    posts,      \* committed rows of table posts: [cat, num, parent]
    lock,       \* row lock on a cats row: tag -> writer holding it, or NoWriter
    wp,         \* WritePost calls: writer -> [pc, cat, parent, post_num]
    rc,         \* the RemoveCategory call: [pc, tag, affected]
    ret,        \* the store call that returned last: [op, n, err, ms, cascaded]
                \* n: rows affected as returned, err: the error returned,
                \* ms: the ms argument of RateLimit, cascaded: rows removed
                \* by the delete trigger of RemovePost
    assigned,   \* history: tag -> nums given out by committed write_post calls
                \* since the cats row was inserted, in commit order
    redis,      \* key -> remaining time to live in ms, or NoTTL
    rl,         \* RateLimit calls: limiter -> [pc, id, res, ms, solo]
    hist,       \* history of RateLimit per (id, res): [called, since, ms]
    mw,         \* requests in middlewareRateLimit: limiter -> [pc, ip, res, ms,
                \* solo, isLimited, rateLimit, status, next]; isLimited and
                \* rateLimit: what the two store calls returned, status: the
                \* status the middleware responded with (0: none), next:
                \* the wrapped handler was invoked
    passed,     \* history per (ip, res): [since, ms, last, rejected], the ms
                \* since the last request that overlapped no other reached the
                \* handler; last: no request on the key has seen
                \* IsRateLimited = false since; rejected: the requests
                \* answered 429 since
    rm          \* the request in handleRemovePost: [pc, cat, num, user, status],
                \* status: the status of the last response (0: none)

dbvars == <<cats, posts, lock, wp, rc, ret, assigned>>
limvars == <<redis, rl, hist, mw, passed>>
rlvars == <<redis, rl, hist, mw, passed, rm>>
vars == <<cats, posts, lock, wp, rc, ret, assigned, redis, rl, hist, mw, passed, rm>>

\* ------------------------------------------------------------------------
\* PostgreSQL: helpers
\* ------------------------------------------------------------------------

PostsOf(c) == {p \in posts : p.cat = c}

\* SELECT COUNT (*) FROM posts WHERE cat = $1 AND parent = 0
GetThreadCount(c) == Cardinality({p \in posts : p.cat = c /\ p.parent = 0})

\* number of write_post calls on c that have not finished
InFlight(c) == Cardinality({w \in Writers : wp[w].pc # "idle" /\ wp[w].cat = c})

\* check_reply looking for the parent number in any category
check_reply_anycat(new) ==
    \/ new.parent = 0
    \/ \E p \in posts : p.num = new.parent

\* trigger check_reply BEFORE INSERT: TRUE when the row may be inserted
check_reply(new) ==
    \/ new.parent = 0
    \/ \E p \in posts : p.num = new.parent /\ p.cat = new.cat

WpIdle == [pc |-> "idle", cat |-> "beep", parent |-> 0, post_num |-> 0]

\* Unlock leaving the row lock with w: the transaction is never ended
Unlock_held(w) == lock

\* the transaction of w ends: its row lock is released
Unlock(w) == [t \in Tags |-> IF lock[t] = w THEN NoWriter ELSE lock[t]]

\* if err != nil { if pgErr.Code == "23503" { return ErrNotFound }; return fmt.Errorf(...) }; return nil
WritePostReturn(w, e) ==
    /\ wp' = [wp EXCEPT ![w] = WpIdle]
    /\ lock' = Unlock(w)
    /\ ret' = [op |-> "WritePost", n |-> 0, err |-> e, ms |-> 0, cascaded |-> 0]

\* ------------------------------------------------------------------------
\* WritePost: CALL write_post($1, $2, ...) in one implicit transaction
\* ------------------------------------------------------------------------

WritePost(w, c, parent) ==
    /\ wp[w].pc = "idle"
    /\ c \in DOMAIN cats => cats[c] + InFlight(c) <= MaxPostCount
    /\ wp' = [wp EXCEPT ![w] = [pc |-> "select", cat |-> c, parent |-> parent, post_num |-> 0]]
    /\ UNCHANGED <<cats, posts, lock, rc, ret, assigned, rlvars>>

\* write_post_select reading the counter without FOR UPDATE
write_post_select_nolock(w) ==
    /\ wp[w].pc = "select"
    /\ LET c == wp[w].cat IN
       IF c \notin DOMAIN cats
       THEN WritePostReturn(w, "ErrNotFound")
       ELSE /\ wp' = [wp EXCEPT ![w].pc = "insert", ![w].post_num = cats[c]]
            /\ UNCHANGED <<lock, ret>>
    /\ UNCHANGED <<cats, posts, rc, assigned, rlvars>>

\* write_post_select without the NULL test: COALESCE(post_count, 1)
write_post_select_coalesce(w) ==
    /\ wp[w].pc = "select"
    /\ LET c == wp[w].cat IN
       IF c \notin DOMAIN cats
       THEN /\ wp' = [wp EXCEPT ![w].pc = "insert", ![w].post_num = 1]
            /\ UNCHANGED <<lock, ret>>
       ELSE /\ lock[c] = NoWriter
            /\ lock' = [lock EXCEPT ![c] = w]
            /\ wp' = [wp EXCEPT ![w].pc = "insert", ![w].post_num = cats[c]]
            /\ UNCHANGED ret
    /\ UNCHANGED <<cats, posts, rc, assigned, rlvars>>

\* write_post_select locking the whole table cats instead of the one row
write_post_select_tablelock(w) ==
    /\ wp[w].pc = "select"
    /\ LET c == wp[w].cat IN
       IF c \notin DOMAIN cats
       THEN WritePostReturn(w, "ErrNotFound")
       ELSE /\ \A t \in Tags : lock[t] = NoWriter
            /\ lock' = [lock EXCEPT ![c] = w]
            /\ wp' = [wp EXCEPT ![w].pc = "insert", ![w].post_num = cats[c]]
            /\ UNCHANGED ret
    /\ UNCHANGED <<cats, posts, rc, assigned, rlvars>>

\* write_post_select numbering by the posts that exist: COUNT(*) + 1
write_post_select_count(w) ==
    /\ wp[w].pc = "select"
    /\ LET c == wp[w].cat IN
       IF c \notin DOMAIN cats
       THEN WritePostReturn(w, "ErrNotFound")
       ELSE /\ lock[c] = NoWriter
            /\ lock' = [lock EXCEPT ![c] = w]
            /\ wp' = [wp EXCEPT ![w].pc = "insert", ![w].post_num = Cardinality(PostsOf(c)) + 1]
            /\ UNCHANGED ret
    /\ UNCHANGED <<cats, posts, rc, assigned, rlvars>>

\* SELECT post_count INTO post_num FROM cats WHERE tag = $1 FOR UPDATE;
\* IF post_num IS NULL THEN RAISE EXCEPTION ... ERRCODE = 23503
write_post_select(w) ==
    /\ wp[w].pc = "select"
    /\ LET c == wp[w].cat IN
       IF c \notin DOMAIN cats
       THEN WritePostReturn(w, "ErrNotFound")
       ELSE /\ lock[c] = NoWriter
            /\ lock' = [lock EXCEPT ![c] = w]
            /\ wp' = [wp EXCEPT ![w].pc = "insert", ![w].post_num = cats[c]]
            /\ UNCHANGED ret
    /\ UNCHANGED <<cats, posts, rc, assigned, rlvars>>

\* write_post_insert whose row is visible to the other transactions at once,
\* before the transaction of w has committed
write_post_insert_visible(w) ==
    /\ wp[w].pc = "insert"
    /\ LET new == [cat |-> wp[w].cat, num |-> wp[w].post_num, parent |-> wp[w].parent] IN
       IF ~check_reply(new)
       THEN WritePostReturn(w, "ErrNotFound") /\ UNCHANGED posts
       ELSE IF \E p \in posts : p.cat = new.cat /\ p.num = new.num
            THEN WritePostReturn(w, "error") /\ UNCHANGED posts
            ELSE /\ wp' = [wp EXCEPT ![w].pc = "update"]
                 /\ posts' = posts \cup {new}
                 /\ UNCHANGED <<lock, ret>>
    /\ UNCHANGED <<cats, rc, assigned, rlvars>>

\* INSERT INTO posts (cat, parent, content, num) VALUES ($1, $2, $3, post_num)
\* with trigger check_reply (23503) and the primary key (num, cat) (23505)
write_post_insert(w) ==
    /\ wp[w].pc = "insert"
    /\ LET new == [cat |-> wp[w].cat, num |-> wp[w].post_num, parent |-> wp[w].parent] IN
       IF ~check_reply(new)
       THEN WritePostReturn(w, "ErrNotFound")
       ELSE IF \E p \in posts : p.cat = new.cat /\ p.num = new.num
            THEN WritePostReturn(w, "error")
            ELSE /\ wp' = [wp EXCEPT ![w].pc = "update"]
                 /\ UNCHANGED <<lock, ret>>
    /\ UNCHANGED <<cats, posts, rc, assigned, rlvars>>

\* write_post_update whose UPDATE matches no row: the counter stays
write_post_update_nocounter(w) ==
    /\ wp[w].pc = "update"
    /\ LET c == wp[w].cat IN
       /\ posts' = posts \cup {[cat |-> c, num |-> wp[w].post_num, parent |-> wp[w].parent]}
       /\ assigned' = [assigned EXCEPT ![c] = Append(@, wp[w].post_num)]
    /\ WritePostReturn(w, "nil")
    /\ UNCHANGED <<cats, rc, rlvars>>

\* write_post_update with UPDATE cats SET post_count = post_num + 1, no WHERE
write_post_update_allcats(w) ==
    /\ wp[w].pc = "update"
    /\ LET c == wp[w].cat IN
       /\ posts' = posts \cup {[cat |-> c, num |-> wp[w].post_num, parent |-> wp[w].parent]}
       /\ cats' = [t \in DOMAIN cats |-> wp[w].post_num + 1]
       /\ assigned' = [assigned EXCEPT ![c] = Append(@, wp[w].post_num)]
    /\ WritePostReturn(w, "nil")
    /\ UNCHANGED <<rc, rlvars>>

\* UPDATE cats SET post_count = post_num + 1 WHERE tag = $1; END: the implicit
\* transaction of Exec commits, row and counter become visible together
write_post_update(w) ==
    /\ wp[w].pc = "update"
    /\ LET c == wp[w].cat IN
       /\ posts' = posts \cup {[cat |-> c, num |-> wp[w].post_num, parent |-> wp[w].parent]}
       /\ cats' = [cats EXCEPT ![c] = wp[w].post_num + 1]
       /\ assigned' = [assigned EXCEPT ![c] = Append(@, wp[w].post_num)]
    /\ WritePostReturn(w, "nil")
    /\ UNCHANGED <<rc, rlvars>>

\* WritePostCancel after an INSERT that was committed on its own: the row stays
WritePostCancel_rowstays(w) ==
    /\ wp[w].pc \in {"select", "insert", "update"}
    /\ WritePostReturn(w, "error")
    /\ posts' = IF wp[w].pc = "update"
                THEN posts \cup {[cat |-> wp[w].cat, num |-> wp[w].post_num, parent |-> wp[w].parent]}
                ELSE posts
    /\ UNCHANGED <<cats, rc, assigned, rlvars>>

\* ctx is cancelled or times out before the commit: the transaction rolls back
WritePostCancel(w) ==
    /\ wp[w].pc \in {"select", "insert", "update"}
    /\ WritePostReturn(w, "error")
    /\ UNCHANGED <<cats, posts, rc, assigned, rlvars>>

\* WritePostSeq advancing the counter before the INSERT and outside its
\* transaction: a write that fails has used up its number
WritePostSeq_consume(c, parent) ==
    /\ \A w \in Writers : wp[w].pc = "idle"
    /\ rc.pc = "idle"
    /\ c \in DOMAIN cats => cats[c] <= MaxThreadPosts
    /\ IF c \notin DOMAIN cats
       THEN /\ ret' = [op |-> "WritePost", n |-> 0, err |-> "ErrNotFound", ms |-> 0, cascaded |-> 0]
            /\ UNCHANGED <<cats, posts, assigned>>
       ELSE LET new == [cat |-> c, num |-> cats[c], parent |-> parent] IN
            /\ cats' = [cats EXCEPT ![c] = new.num + 1]
            /\ IF ~check_reply(new)
               THEN /\ ret' = [op |-> "WritePost", n |-> 0, err |-> "ErrNotFound", ms |-> 0, cascaded |-> 0]
                    /\ UNCHANGED <<posts, assigned>>
               ELSE /\ posts' = posts \cup {new}
                    /\ assigned' = [assigned EXCEPT ![c] = Append(@, new.num)]
                    /\ ret' = [op |-> "WritePost", n |-> 0, err |-> "nil", ms |-> 0, cascaded |-> 0]
    /\ UNCHANGED <<lock, wp, rc, rlvars>>

\* WritePost called with no other call in progress: CALL write_post runs its
\* SELECT ... FOR UPDATE, INSERT (check_reply, primary key) and UPDATE and
\* commits, or raises and rolls back, before the next call starts
WritePostSeq(c, parent) ==
    /\ \A w \in Writers : wp[w].pc = "idle"
    /\ rc.pc = "idle"
    /\ c \in DOMAIN cats => cats[c] <= MaxThreadPosts
    /\ IF c \notin DOMAIN cats
       THEN /\ ret' = [op |-> "WritePost", n |-> 0, err |-> "ErrNotFound", ms |-> 0, cascaded |-> 0]
            /\ UNCHANGED <<cats, posts, assigned>>
       ELSE LET new == [cat |-> c, num |-> cats[c], parent |-> parent] IN
            IF ~check_reply(new)
            THEN /\ ret' = [op |-> "WritePost", n |-> 0, err |-> "ErrNotFound", ms |-> 0, cascaded |-> 0]
                 /\ UNCHANGED <<cats, posts, assigned>>
            ELSE IF \E p \in posts : p.cat = new.cat /\ p.num = new.num
                 THEN /\ ret' = [op |-> "WritePost", n |-> 0, err |-> "error", ms |-> 0, cascaded |-> 0]
                      /\ UNCHANGED <<cats, posts, assigned>>
                 ELSE /\ posts' = posts \cup {new}
                      /\ cats' = [cats EXCEPT ![c] = new.num + 1]
                      /\ assigned' = [assigned EXCEPT ![c] = Append(@, new.num)]
                      /\ ret' = [op |-> "WritePost", n |-> 0, err |-> "nil", ms |-> 0, cascaded |-> 0]
    /\ UNCHANGED <<lock, wp, rc, rlvars>>

\* ------------------------------------------------------------------------
\* WriteCategory: INSERT INTO cats (tag, name) VALUES ($1, $2)
\* ------------------------------------------------------------------------

\* post_count integer NOT NULL DEFAULT 1
DefaultPostCount == 1

\* WriteCategory on a table whose post_count has DEFAULT 2
WriteCategory_default2(c) ==
    /\ IF c \in DOMAIN cats
       THEN /\ ret' = [op |-> "WriteCategory", n |-> 0, err |-> "error", ms |-> 0, cascaded |-> 0]
            /\ UNCHANGED <<cats, assigned>>
       ELSE /\ cats' = [t \in DOMAIN cats \cup {c} |-> IF t = c THEN 2 ELSE cats[t]]
            /\ assigned' = [assigned EXCEPT ![c] = << >>]
            /\ ret' = [op |-> "WriteCategory", n |-> 0, err |-> "nil", ms |-> 0, cascaded |-> 0]
    /\ UNCHANGED <<posts, lock, wp, rc, rlvars>>

WriteCategory(c) ==
    /\ IF c \in DOMAIN cats
       THEN /\ ret' = [op |-> "WriteCategory", n |-> 0, err |-> "error", ms |-> 0, cascaded |-> 0]
            /\ UNCHANGED <<cats, assigned>>
       ELSE /\ cats' = [t \in DOMAIN cats \cup {c} |-> IF t = c THEN DefaultPostCount ELSE cats[t]]
            /\ assigned' = [assigned EXCEPT ![c] = << >>]
            /\ ret' = [op |-> "WriteCategory", n |-> 0, err |-> "nil", ms |-> 0, cascaded |-> 0]
    /\ UNCHANGED <<posts, lock, wp, rc, rlvars>>

\* ------------------------------------------------------------------------
\* RemoveCategory: two Exec calls, each its own implicit transaction
\* ------------------------------------------------------------------------

RcIdle == [pc |-> "idle", tag |-> "beep", affected |-> 0]

\* tag, err := Exec("DELETE FROM posts WHERE cat = $1"); affected = tag.RowsAffected()
\* fail: Exec returns an error (connection, cancelled ctx) and deletes nothing
RemoveCategory(c, fail) ==
    /\ rc.pc = "idle"
    /\ IF fail
       THEN /\ ret' = [op |-> "RemoveCategory", n |-> 0, err |-> "error", ms |-> 0, cascaded |-> 0]
            /\ UNCHANGED <<posts, rc>>
       ELSE /\ posts' = posts \ PostsOf(c)
            /\ rc' = [pc |-> "delCat", tag |-> c, affected |-> Cardinality(PostsOf(c))]
            /\ UNCHANGED ret
    /\ UNCHANGED <<cats, lock, wp, assigned, rlvars>>

\* RemoveCategoryCat returning the rows of its second delete only
RemoveCategoryCat_lastonly(fail) ==
    /\ rc.pc = "delCat"
    /\ rc' = RcIdle
    /\ LET c == rc.tag
           affected == rc.affected IN
       IF fail
       THEN /\ ret' = [op |-> "RemoveCategory", n |-> affected, err |-> "error", ms |-> 0, cascaded |-> 0]
            /\ UNCHANGED <<cats, assigned>>
       ELSE IF c \notin DOMAIN cats
       THEN /\ ret' = [op |-> "RemoveCategory", n |-> 0, err |-> "nil", ms |-> 0, cascaded |-> 0]
            /\ UNCHANGED <<cats, assigned>>
       ELSE /\ lock[c] = NoWriter
            /\ IF PostsOf(c) # {}
               THEN /\ ret' = [op |-> "RemoveCategory", n |-> affected, err |-> "error", ms |-> 0, cascaded |-> 0]
                    /\ UNCHANGED <<cats, assigned>>
               ELSE /\ cats' = [t \in DOMAIN cats \ {c} |-> cats[t]]
                    /\ assigned' = [assigned EXCEPT ![c] = << >>]
                    /\ ret' = [op |-> "RemoveCategory", n |-> 1, err |-> "nil", ms |-> 0, cascaded |-> 0]
    /\ UNCHANGED <<posts, lock, wp, rlvars>>

\* tag, err = Exec("DELETE FROM cats WHERE tag = $1"); return affected + tag.RowsAffected()
\* The delete waits for the row lock; FOREIGN KEY (cat) REFERENCES cats (tag)
\* rejects it while a post of the category exists.
RemoveCategoryCat(fail) ==
    /\ rc.pc = "delCat"
    /\ rc' = RcIdle
    /\ LET c == rc.tag
           affected == rc.affected IN
       IF fail
       THEN /\ ret' = [op |-> "RemoveCategory", n |-> affected, err |-> "error", ms |-> 0, cascaded |-> 0]
            /\ UNCHANGED <<cats, assigned>>
       ELSE IF c \notin DOMAIN cats
       THEN /\ ret' = [op |-> "RemoveCategory", n |-> affected + 0, err |-> "nil", ms |-> 0, cascaded |-> 0]
            /\ UNCHANGED <<cats, assigned>>
       ELSE /\ lock[c] = NoWriter
            /\ IF PostsOf(c) # {}
               THEN /\ ret' = [op |-> "RemoveCategory", n |-> affected, err |-> "error", ms |-> 0, cascaded |-> 0]
                    /\ UNCHANGED <<cats, assigned>>
               ELSE /\ cats' = [t \in DOMAIN cats \ {c} |-> cats[t]]
                    /\ assigned' = [assigned EXCEPT ![c] = << >>]
                    /\ ret' = [op |-> "RemoveCategory", n |-> affected + 1, err |-> "nil", ms |-> 0, cascaded |-> 0]
    /\ UNCHANGED <<posts, lock, wp, rlvars>>

\* ------------------------------------------------------------------------
\* RemovePost: DELETE FROM posts WHERE cat = $1 AND num = $2
\* ------------------------------------------------------------------------

\* row trigger on DELETE: the replies of a deleted thread root go with it;
\* the decision is taken from the row being deleted
\* delete_replies without the test of OLD.parent
delete_replies_always(old) ==
    {q \in posts : q.cat = old.cat /\ q.parent = old.num}

delete_replies(old) ==
    IF old.parent = 0
    THEN {q \in posts : q.cat = old.cat /\ q.parent = old.num}
    ELSE {}

\* RemovePost with DELETE FROM posts WHERE num = $2, the category forgotten
RemovePost_anycat(c, n, fail) ==
    /\ IF fail
       THEN /\ ret' = [op |-> "RemovePost", n |-> 0, err |-> "error", ms |-> 0, cascaded |-> 0]
            /\ UNCHANGED posts
       ELSE LET rows == {p \in posts : p.num = n} IN
            /\ posts' = posts \ (rows \cup UNION {delete_replies(p) : p \in rows})
            /\ ret' = [op |-> "RemovePost", n |-> Cardinality(rows), err |-> "nil", ms |-> 0,
                       cascaded |-> Cardinality(UNION {delete_replies(p) : p \in rows})]
    /\ UNCHANGED <<cats, lock, wp, rc, assigned, limvars>>

\* RemovePost lowering post_count by the rows it removed, as a count of posts
RemovePost_decrement(c, n, fail) ==
    /\ IF fail
       THEN /\ ret' = [op |-> "RemovePost", n |-> 0, err |-> "error", ms |-> 0, cascaded |-> 0]
            /\ UNCHANGED <<posts, cats>>
       ELSE LET rows == {p \in posts : p.cat = c /\ p.num = n} IN
            /\ posts' = posts \ (rows \cup UNION {delete_replies(p) : p \in rows})
            /\ cats' = [t \in DOMAIN cats |->
                            IF t = c THEN cats[t] - Cardinality(rows) ELSE cats[t]]
            /\ ret' = [op |-> "RemovePost", n |-> Cardinality(rows), err |-> "nil", ms |-> 0,
                       cascaded |-> Cardinality(UNION {delete_replies(p) : p \in rows})]
    /\ UNCHANGED <<lock, wp, rc, assigned, limvars>>

\* RemovePost with DELETE ... WHERE cat = $1 AND (num = $2 OR parent = $2)
RemovePost_orparent(c, n, fail) ==
    /\ IF fail
       THEN /\ ret' = [op |-> "RemovePost", n |-> 0, err |-> "error", ms |-> 0, cascaded |-> 0]
            /\ UNCHANGED posts
       ELSE LET rows == {p \in posts : p.cat = c /\ (p.num = n \/ p.parent = n)} IN
            /\ posts' = posts \ (rows \cup UNION {delete_replies(p) : p \in rows})
            /\ ret' = [op |-> "RemovePost", n |-> Cardinality(rows), err |-> "nil", ms |-> 0,
                       cascaded |-> Cardinality(UNION {delete_replies(p) : p \in rows} \ rows)]
    /\ UNCHANGED <<cats, lock, wp, rc, assigned, limvars>>

\* RemovePost returning the rows removed by the delete and by its trigger
RemovePost_countall(c, n, fail) ==
    /\ IF fail
       THEN /\ ret' = [op |-> "RemovePost", n |-> 0, err |-> "error", ms |-> 0, cascaded |-> 0]
            /\ UNCHANGED posts
       ELSE LET rows == {p \in posts : p.cat = c /\ p.num = n} IN
            /\ posts' = posts \ (rows \cup UNION {delete_replies(p) : p \in rows})
            /\ ret' = [op |-> "RemovePost", n |-> Cardinality(posts) - Cardinality(posts'),
                       err |-> "nil", ms |-> 0,
                       cascaded |-> Cardinality(UNION {delete_replies(p) : p \in rows})]
    /\ UNCHANGED <<cats, lock, wp, rc, assigned, limvars>>

\* DELETE FROM posts WHERE cat = $1 AND num = $2; return res.RowsAffected():
\* the rows the statement itself deleted, not those its trigger deleted
RemovePost(c, n, fail) ==
    /\ IF fail
       THEN /\ ret' = [op |-> "RemovePost", n |-> 0, err |-> "error", ms |-> 0, cascaded |-> 0]
            /\ UNCHANGED posts
       ELSE LET rows == {p \in posts : p.cat = c /\ p.num = n} IN
            /\ posts' = posts \ (rows \cup UNION {delete_replies(p) : p \in rows})
            /\ ret' = [op |-> "RemovePost", n |-> Cardinality(rows), err |-> "nil", ms |-> 0,
                       cascaded |-> Cardinality(UNION {delete_replies(p) : p \in rows})]
    /\ UNCHANGED <<cats, lock, wp, rc, assigned, limvars>>

\* ------------------------------------------------------------------------
\* GetThreadView
\* ------------------------------------------------------------------------

\* ORDER BY NUM ASC
RECURSIVE OrderByNum(_)
OrderByNum(rows) ==
    IF rows = {}
    THEN << >>
    ELSE LET first == CHOOSE p \in rows : \A q \in rows : p.num <= q.num IN
         <<first>> \o OrderByNum(rows \ {first})

\* if rows.Next() { return cat, nil }; return nil, ErrNotFound
GetCategory(c) == IF c \in DOMAIN cats THEN "nil" ELSE "ErrNotFound"

\* GetThreadView selecting WHERE num = $2 OR parent = $2, the category forgotten
GetThreadView_anycat(c, threadNum) ==
    IF GetCategory(c) # "nil"
    THEN [err |-> GetCategory(c), posts |-> << >>]
    ELSE LET rows == {p \in posts : p.num = threadNum \/ p.parent = threadNum} IN
         IF rows = {}
         THEN [err |-> "ErrNotFound", posts |-> << >>]
         ELSE [err |-> "nil", posts |-> OrderByNum(rows)]

\* category, err := GetCategory(tag); if err != nil { return nil, err }
\* SELECT ... FROM posts WHERE cat = $1 AND (num = $2 or parent = $2) ORDER BY NUM ASC
\* if len(posts) == 0 { return nil, ErrNotFound }
GetThreadView(c, threadNum) ==
    IF GetCategory(c) # "nil"
    THEN [err |-> GetCategory(c), posts |-> << >>]
    ELSE LET rows == {p \in posts : p.cat = c /\ (p.num = threadNum \/ p.parent = threadNum)} IN
         IF rows = {}
         THEN [err |-> "ErrNotFound", posts |-> << >>]
         ELSE [err |-> "nil", posts |-> OrderByNum(rows)]

\* ------------------------------------------------------------------------
\* GetCategoryView
\* ------------------------------------------------------------------------

\* GetCategoryView selecting WHERE cat = $1, replies included
GetCategoryView_replies(c) ==
    IF GetCategory(c) # "nil"
    THEN [err |-> GetCategory(c), tag |-> "", threads |-> << >>]
    ELSE [err |-> "nil", tag |-> c,
          threads |-> OrderByNum({p \in posts : p.cat = c})]

\* cat, err := GetCategory(tag); if err != nil { return nil, err }
\* SELECT ... FROM posts WHERE cat = $1 AND parent = 0 ORDER BY num ASC
\* return &CatView{Threads: posts, Category: cat}, nil
GetCategoryView(c) ==
    IF GetCategory(c) # "nil"
    THEN [err |-> GetCategory(c), tag |-> "", threads |-> << >>]
    ELSE [err |-> "nil", tag |-> c,
          threads |-> OrderByNum({p \in posts : p.cat = c /\ p.parent = 0})]

\* ------------------------------------------------------------------------
\* handleCreatePost
\* ------------------------------------------------------------------------

postFailMessage == "Sorry, an error occurred while saving your post"

\* err.Error() of what WritePost returns: ErrNotFound itself, or the error
\* of Exec wrapped by fmt.Errorf("failed to execute post write: %w", err)
ErrorText(err) ==
    CASE err = "ErrNotFound" -> "not found"
      [] err = "error" -> "failed to execute post write: context canceled"
      [] OTHER -> ""

\* handleCreatePost responding with the text of the error of WritePost
handleCreatePost_leak(err) ==
    IF err # "nil"
    THEN IF err = "ErrNotFound"
         THEN [status |-> 404, data |-> "", message |-> ErrorText(err)]
         ELSE [status |-> 500, data |-> "", message |-> ErrorText(err)]
    ELSE [status |-> 200, data |-> "post submitted", message |-> ""]

\* what handleCreatePost responds once WritePost has returned err:
\* if err != nil { if errors.Is(err, data.ErrNotFound) { 404, err.Error() }
\*                 else { 500, postFailMessage } } else { 200, ok{...} }
handleCreatePost(err) ==
    IF err # "nil"
    THEN IF err = "ErrNotFound"
         THEN [status |-> 404, data |-> "", message |-> ErrorText(err)]
         ELSE [status |-> 500, data |-> "", message |-> postFailMessage]
    ELSE [status |-> 200, data |-> "post submitted", message |-> ""]

\* ------------------------------------------------------------------------
\* Redis: the rate limiter
\* ------------------------------------------------------------------------

\* getRateLimitResourceID leaving the resource out of the key
getRateLimitResourceID_idonly(identifier, resource) == identifier \o <<"-">>

\* fmt.Sprintf("%s-%s", identifier, resource)
getRateLimitResourceID(identifier, resource) == identifier \o <<"-">> \o resource

\* redis.Bool(conn.Do("EXISTS", key))
IsRateLimited(identifier, resource) ==
    getRateLimitResourceID(identifier, resource) \in DOMAIN redis

RlIdle == [pc |-> "idle", id |-> <<"1">>, res |-> <<"p">>, ms |-> 0, solo |-> FALSE]

Pairs == Identifiers \X Resources

\* another RateLimit call on the same key is between its SET and its PEXPIRE
Overlaps(l, key) ==
    \E o \in Limiters \ {l} :
        rl[o].pc = "pexpire" /\ getRateLimitResourceID(rl[o].id, rl[o].res) = key

\* RateLimit testing ms < 0: a duration of 0 reaches SET
RateLimit_zero(l, identifier, resource, ms, fail) ==
    /\ rl[l].pc = "idle"
    /\ LET key == getRateLimitResourceID(identifier, resource) IN
       IF ms < 0
       THEN /\ ret' = [op |-> "RateLimit", n |-> 0, err |-> "nil", ms |-> ms, cascaded |-> 0]
            /\ hist' = [hist EXCEPT ![<<identifier, resource>>].called = TRUE]
            /\ UNCHANGED <<redis, rl>>
       ELSE IF fail
       THEN /\ ret' = [op |-> "RateLimit", n |-> 0, err |-> "error", ms |-> ms, cascaded |-> 0]
            /\ hist' = [hist EXCEPT ![<<identifier, resource>>].called = TRUE]
            /\ UNCHANGED <<redis, rl>>
       ELSE /\ redis' = [k \in DOMAIN redis \cup {key} |-> IF k = key THEN NoTTL ELSE redis[k]]
            /\ rl' = [o \in Limiters |->
                        IF o = l
                        THEN [pc |-> "pexpire", id |-> identifier, res |-> resource, ms |-> ms,
                              solo |-> ~Overlaps(l, key)]
                        ELSE IF rl[o].pc = "pexpire" /\ getRateLimitResourceID(rl[o].id, rl[o].res) = key
                             THEN [rl[o] EXCEPT !.solo = FALSE]
                             ELSE rl[o]]
            /\ hist' = [p \in Pairs |->
                        IF getRateLimitResourceID(p[1], p[2]) = key
                        THEN [called |-> hist[p].called \/ p = <<identifier, resource>>,
                              since |-> -1, ms |-> 0]
                        ELSE hist[p]]
            /\ UNCHANGED ret
    /\ UNCHANGED <<cats, posts, lock, wp, rc, assigned>>

\* key := getRateLimitResourceID(identifier, resource)
\* if ms < 1 { return nil }; _, err := conn.Do("SET", key, ms); if err != nil { return err }
\* SET stores the value without an expiry, discarding one the key had.
RateLimit(l, identifier, resource, ms, fail) ==
    /\ rl[l].pc = "idle"
    /\ LET key == getRateLimitResourceID(identifier, resource) IN
       IF ms < 1
       THEN /\ ret' = [op |-> "RateLimit", n |-> 0, err |-> "nil", ms |-> ms, cascaded |-> 0]
            /\ hist' = [hist EXCEPT ![<<identifier, resource>>].called = TRUE]
            /\ UNCHANGED <<redis, rl>>
       ELSE IF fail
       THEN /\ ret' = [op |-> "RateLimit", n |-> 0, err |-> "error", ms |-> ms, cascaded |-> 0]
            /\ hist' = [hist EXCEPT ![<<identifier, resource>>].called = TRUE]
            /\ UNCHANGED <<redis, rl>>
       ELSE /\ redis' = [k \in DOMAIN redis \cup {key} |-> IF k = key THEN NoTTL ELSE redis[k]]
            /\ rl' = [o \in Limiters |->
                        IF o = l
                        THEN [pc |-> "pexpire", id |-> identifier, res |-> resource, ms |-> ms,
                              solo |-> ~Overlaps(l, key)]
                        ELSE IF rl[o].pc = "pexpire" /\ getRateLimitResourceID(rl[o].id, rl[o].res) = key
                             THEN [rl[o] EXCEPT !.solo = FALSE]
                             ELSE rl[o]]
            /\ hist' = [p \in Pairs |->
                        IF getRateLimitResourceID(p[1], p[2]) = key
                        THEN [called |-> hist[p].called \/ p = <<identifier, resource>>,
                              since |-> -1, ms |-> 0]
                        ELSE hist[p]]
            /\ UNCHANGED ret
    /\ UNCHANGED <<cats, posts, lock, wp, rc, assigned>>

\* RateLimitExpire sending EXPIRE: the duration is taken as seconds
RateLimitExpire_seconds(l, fail) ==
    /\ rl[l].pc = "pexpire"
    /\ rl' = [rl EXCEPT ![l] = RlIdle]
    /\ LET key == getRateLimitResourceID(rl[l].id, rl[l].res) IN
       IF fail
       THEN /\ ret' = [op |-> "RateLimit", n |-> 0, err |-> "error", ms |-> rl[l].ms, cascaded |-> 0]
            /\ UNCHANGED <<redis, hist>>
       ELSE /\ redis' = [k \in DOMAIN redis |-> IF k = key THEN rl[l].ms * 1000 ELSE redis[k]]
            /\ ret' = [op |-> "RateLimit", n |-> 0, err |-> "nil", ms |-> rl[l].ms, cascaded |-> 0]
            /\ hist' = [p \in Pairs |->
                        IF p = <<rl[l].id, rl[l].res>> /\ rl[l].solo
                        THEN [hist[p] EXCEPT !.since = 0, !.ms = rl[l].ms]
                        ELSE hist[p]]
    /\ UNCHANGED <<cats, posts, lock, wp, rc, assigned>>

\* _, err = conn.Do("PEXPIRE", key, ms); return err
\* PEXPIRE on a key that does not exist sets nothing and is no error.
RateLimitExpire(l, fail) ==
    /\ rl[l].pc = "pexpire"
    /\ rl' = [rl EXCEPT ![l] = RlIdle]
    /\ LET key == getRateLimitResourceID(rl[l].id, rl[l].res) IN
       IF fail
       THEN /\ ret' = [op |-> "RateLimit", n |-> 0, err |-> "error", ms |-> rl[l].ms, cascaded |-> 0]
            /\ UNCHANGED <<redis, hist>>
       ELSE /\ redis' = [k \in DOMAIN redis |-> IF k = key THEN rl[l].ms ELSE redis[k]]
            /\ ret' = [op |-> "RateLimit", n |-> 0, err |-> "nil", ms |-> rl[l].ms, cascaded |-> 0]
            /\ hist' = [p \in Pairs |->
                        IF p = <<rl[l].id, rl[l].res>> /\ rl[l].solo
                        THEN [hist[p] EXCEPT !.since = 0, !.ms = rl[l].ms]
                        ELSE hist[p]]
    /\ UNCHANGED <<cats, posts, lock, wp, rc, assigned>>

\* one millisecond passes: a key is gone once its time to live has run out
Tick ==
    /\ redis' = [k \in {j \in DOMAIN redis : redis[j] # 0} |->
                    IF redis[k] = NoTTL THEN NoTTL ELSE redis[k] - 1]
    /\ hist' = [p \in Pairs |->
                    IF hist[p].since >= 0 /\ hist[p].since <= hist[p].ms
                    THEN [hist[p] EXCEPT !.since = @ + 1]
                    ELSE hist[p]]
    /\ passed' = [p \in Pairs |->
                    IF passed[p].since >= 0 /\ passed[p].since <= passed[p].ms
                    THEN [passed[p] EXCEPT !.since = @ + 1]
                    ELSE passed[p]]
    /\ UNCHANGED <<cats, posts, lock, wp, rc, ret, assigned, rl, mw, rm>>

\* ------------------------------------------------------------------------
\* The rate-limit middleware
\* ------------------------------------------------------------------------

MwIdle == [pc |-> "idle", ip |-> <<"1">>, res |-> <<"p">>, ms |-> 0, solo |-> FALSE,
           isLimited |-> "none", rateLimit |-> "none", status |-> 0, next |-> FALSE]

\* another request on the same key is between its IsRateLimited and its response
InFlightOn(l, key) ==
    \E o \in Limiters \ {l} :
        mw[o].pc # "idle" /\ getRateLimitResourceID(mw[o].ip, mw[o].res) = key

\* passed once a request for (ip, resource) has been answered 429
PassedRejected(ip, resource) ==
    [passed EXCEPT ![<<ip, resource>>].rejected =
        IF passed[<<ip, resource>>].last /\ @ < MaxRejected THEN @ + 1 ELSE @]

\* passed once a request for (ip, resource) has seen IsRateLimited = false
PassedUnlimited(ip, resource) ==
    [p \in Pairs |->
        IF getRateLimitResourceID(p[1], p[2]) = getRateLimitResourceID(ip, resource)
        THEN [passed[p] EXCEPT !.last = FALSE, !.rejected = 0]
        ELSE passed[p]]

\* middlewareRateLimit invoking the handler of a request that is limited
middlewareRateLimit_ignoreLimited(l, ip, resource, ms, fail) ==
    /\ mw[l].pc = "idle" /\ rl[l].pc = "idle"
    /\ LET key == getRateLimitResourceID(ip, resource)
           req == [MwIdle EXCEPT !.ip = ip, !.res = resource, !.ms = ms]
       IN  IF fail
           THEN mw' = [mw EXCEPT ![l] = [req EXCEPT !.isLimited = "error", !.status = 500]]
           ELSE mw' = [o \in Limiters |->
                        IF o = l
                        THEN [req EXCEPT !.pc = "gate",
                                         !.isLimited = IF IsRateLimited(ip, resource)
                                                       THEN "true" ELSE "false",
                                         !.solo = ~InFlightOn(l, key)]
                        ELSE IF mw[o].pc # "idle"
                                /\ getRateLimitResourceID(mw[o].ip, mw[o].res) = key
                             THEN [mw[o] EXCEPT !.solo = FALSE]
                             ELSE mw[o]]
    /\ passed' = IF fail THEN passed ELSE PassedUnlimited(ip, resource)
    /\ UNCHANGED <<dbvars, redis, rl, hist, rm>>

\* middlewareRateLimit answering 429 and setting the time to live of the
\* entry anew
middlewareRateLimit_refresh(l, ip, resource, ms, fail) ==
    /\ mw[l].pc = "idle" /\ rl[l].pc = "idle"
    /\ LET key == getRateLimitResourceID(ip, resource)
           req == [MwIdle EXCEPT !.ip = ip, !.res = resource, !.ms = ms]
       IN  IF fail
           THEN /\ mw' = [mw EXCEPT ![l] = [req EXCEPT !.isLimited = "error", !.status = 500]]
                /\ UNCHANGED <<redis, passed>>
           ELSE IF IsRateLimited(ip, resource)
           THEN /\ mw' = [mw EXCEPT ![l] = [req EXCEPT !.isLimited = "true", !.status = 429]]
                /\ redis' = [redis EXCEPT ![key] = IF @ = NoTTL THEN @ ELSE ms]
                /\ passed' = PassedRejected(ip, resource)
           ELSE /\ mw' = [o \in Limiters |->
                        IF o = l
                        THEN [req EXCEPT !.pc = "gate", !.isLimited = "false",
                                         !.solo = ~InFlightOn(l, key)]
                        ELSE IF mw[o].pc # "idle"
                                /\ getRateLimitResourceID(mw[o].ip, mw[o].res) = key
                             THEN [mw[o] EXCEPT !.solo = FALSE]
                             ELSE mw[o]]
                /\ passed' = PassedUnlimited(ip, resource)
                /\ UNCHANGED redis
    /\ UNCHANGED <<dbvars, rl, hist, rm>>

\* isLimited, err := s.store.IsRateLimited(req.ip, resource)
\* if err != nil { res.Respond(500, ...); return }
\* if isLimited { res.Respond(429, ...); return }
middlewareRateLimit(l, ip, resource, ms, fail) ==
    /\ mw[l].pc = "idle" /\ rl[l].pc = "idle"
    /\ LET key == getRateLimitResourceID(ip, resource)
           req == [MwIdle EXCEPT !.ip = ip, !.res = resource, !.ms = ms]
       IN  IF fail
           THEN mw' = [mw EXCEPT ![l] = [req EXCEPT !.isLimited = "error", !.status = 500]]
           ELSE IF IsRateLimited(ip, resource)
           THEN mw' = [mw EXCEPT ![l] = [req EXCEPT !.isLimited = "true", !.status = 429]]
           ELSE mw' = [o \in Limiters |->
                        IF o = l
                        THEN [req EXCEPT !.pc = "gate", !.isLimited = "false",
                                         !.solo = ~InFlightOn(l, key)]
                        ELSE IF mw[o].pc # "idle"
                                /\ getRateLimitResourceID(mw[o].ip, mw[o].res) = key
                             THEN [mw[o] EXCEPT !.solo = FALSE]
                             ELSE mw[o]]
    /\ passed' = IF fail THEN passed
                 ELSE IF IsRateLimited(ip, resource) THEN PassedRejected(ip, resource)
                 ELSE PassedUnlimited(ip, resource)
    /\ UNCHANGED <<dbvars, redis, rl, hist, rm>>

\* middlewareRateLimit invoking the handler whatever RateLimit returned
middlewareRateLimit_return_failopen(l, err) ==
    /\ mw' = [mw EXCEPT ![l] = [@ EXCEPT !.pc = "idle", !.rateLimit = err,
                                         !.status = 0, !.next = TRUE]]
    /\ passed' = IF mw[l].solo /\ mw[l].ms > 0
                 THEN [passed EXCEPT ![<<mw[l].ip, mw[l].res>>] = [since |-> 0, ms |-> mw[l].ms, last |-> TRUE, rejected |-> 0]]
                 ELSE passed

\* err = s.store.RateLimit(req.ip, resource, ms) has returned err:
\* if err != nil { res.Respond(500, ...); return }; next(ctx, req, res)
middlewareRateLimit_return(l, err) ==
    /\ mw' = [mw EXCEPT ![l] = [@ EXCEPT !.pc = "idle", !.rateLimit = err,
                                         !.status = IF err = "nil" THEN 0 ELSE 500,
                                         !.next = (err = "nil")]]
    /\ passed' = IF err = "nil" /\ mw[l].solo /\ mw[l].ms > 0
                 THEN [passed EXCEPT ![<<mw[l].ip, mw[l].res>>] = [since |-> 0, ms |-> mw[l].ms, last |-> TRUE, rejected |-> 0]]
                 ELSE passed

\* middlewareRateLimit going on to the handler without calling RateLimit
middlewareRateLimit_RateLimit_skip(l, fail) ==
    /\ mw[l].pc = "gate"
    /\ middlewareRateLimit_return(l, "nil")
    /\ UNCHANGED <<dbvars, redis, rl, hist, rm>>

\* the request calls s.store.RateLimit(req.ip, resource, ms): up to its SET
middlewareRateLimit_RateLimit(l, fail) ==
    /\ mw[l].pc = "gate"
    /\ RateLimit(l, mw[l].ip, mw[l].res, mw[l].ms, fail)
    /\ IF rl'[l].pc = "pexpire"
       THEN mw' = [mw EXCEPT ![l].pc = "pexpire"] /\ UNCHANGED passed
       ELSE middlewareRateLimit_return(l, ret'.err)
    /\ UNCHANGED rm

\* the PEXPIRE of the request's RateLimit call, and what follows its return
middlewareRateLimit_Expire(l, fail) ==
    /\ mw[l].pc = "pexpire"
    /\ RateLimitExpire(l, fail)
    /\ middlewareRateLimit_return(l, ret'.err)
    /\ UNCHANGED rm

\* ------------------------------------------------------------------------
\* handleRemovePost
\* ------------------------------------------------------------------------

RmIdle == [pc |-> "idle", cat |-> "beep", num |-> 0, user |-> "u1", status |-> 0]

\* write_post as one step, the row stored with the email of its author
WritePostAs(c, parent, email) ==
    /\ \A w \in Writers : wp[w].pc = "idle"
    /\ rc.pc = "idle"
    /\ c \in DOMAIN cats => cats[c] <= MaxPostCount
    /\ IF c \notin DOMAIN cats
       THEN /\ ret' = [op |-> "WritePost", n |-> 0, err |-> "ErrNotFound", ms |-> 0, cascaded |-> 0]
            /\ UNCHANGED <<cats, posts, assigned>>
       ELSE LET new == [cat |-> c, num |-> cats[c], parent |-> parent, email |-> email] IN
            IF ~check_reply(new)
            THEN /\ ret' = [op |-> "WritePost", n |-> 0, err |-> "ErrNotFound", ms |-> 0, cascaded |-> 0]
                 /\ UNCHANGED <<cats, posts, assigned>>
            ELSE IF \E p \in posts : p.cat = new.cat /\ p.num = new.num
                 THEN /\ ret' = [op |-> "WritePost", n |-> 0, err |-> "error", ms |-> 0, cascaded |-> 0]
                      /\ UNCHANGED <<cats, posts, assigned>>
                 ELSE /\ posts' = posts \cup {new}
                      /\ cats' = [cats EXCEPT ![c] = new.num + 1]
                      /\ assigned' = [assigned EXCEPT ![c] = Append(@, new.num)]
                      /\ ret' = [op |-> "WritePost", n |-> 0, err |-> "nil", ms |-> 0, cascaded |-> 0]
    /\ UNCHANGED <<lock, wp, rc, rlvars>>

\* the post numbered postNumber of the category was written with this email
EmailMatches(categoryTag, postNumber, email) ==
    \E p \in posts : p.cat = categoryTag /\ p.num = postNumber /\ p.email = email

\* match, err := server.store.EmailMatches(ctx, categoryTag, threadNumber, req.user.Email)
\* if err != nil { 500; return }; if !match { 401; return }
handleRemovePost(c, n, user, fail) ==
    /\ rm.pc = "idle"
    /\ rm' = IF fail THEN [RmIdle EXCEPT !.status = 500]
             ELSE IF ~EmailMatches(c, n, user) THEN [RmIdle EXCEPT !.status = 401]
             ELSE [RmIdle EXCEPT !.pc = "remove", !.cat = c, !.num = n, !.user = user]
    /\ UNCHANGED <<dbvars, limvars>>

\* _, err = server.store.RemovePost(ctx, categoryTag, threadNumber)
\* if err != nil { 500; return }; res.Respond(http.StatusOK, nil, "post removed")
handleRemovePost_RemovePost(fail) ==
    /\ rm.pc = "remove"
    /\ RemovePost(rm.cat, rm.num, fail)
    /\ rm' = [RmIdle EXCEPT !.status = IF ret'.err = "nil" THEN 200 ELSE 500]

\* ------------------------------------------------------------------------
\* Init / Next
\* ------------------------------------------------------------------------

Init ==
    /\ cats = [t \in {} |-> 0]
    /\ posts = {}
    /\ lock = [t \in Tags |-> NoWriter]
    /\ wp = [w \in Writers |-> WpIdle]
    /\ rc = RcIdle
    /\ ret = [op |-> "none", n |-> 0, err |-> "nil", ms |-> 0, cascaded |-> 0]
    /\ assigned = [t \in Tags |-> << >>]
    /\ redis = [k \in {} |-> 0]
    /\ rl = [l \in Limiters |-> RlIdle]
    /\ hist = [p \in Pairs |-> [called |-> FALSE, since |-> -1, ms |-> 0]]
    /\ mw = [l \in Limiters |-> MwIdle]
    /\ rm = RmIdle
    /\ passed = [p \in Pairs |-> [since |-> -1, ms |-> 0, last |-> FALSE, rejected |-> 0]]

Next ==
    \/ \E w \in Writers, c \in Tags, parent \in Parents : WritePost(w, c, parent)
    \/ \E w \in Writers : write_post_select(w)
    \/ \E w \in Writers : write_post_insert(w)
    \/ \E w \in Writers : write_post_update(w)
    \/ \E w \in Writers : WritePostCancel(w)
    \/ \E c \in Tags : WriteCategory(c)
    \/ \E c \in Tags, fail \in BOOLEAN : RemoveCategory(c, fail)
    \/ \E fail \in BOOLEAN : RemoveCategoryCat(fail)
    \/ \E c \in Tags, n \in 1..MaxPostCount, fail \in BOOLEAN :
            RemovePost(c, n, fail) /\ UNCHANGED rm

Spec == Init /\ [][Next]_vars

\* WritePost and RemovePost calls on the categories written, no category removed
NextPosts ==
    \/ \E w \in Writers, c \in Tags, parent \in Parents : WritePost(w, c, parent)
    \/ \E w \in Writers : write_post_select(w)
    \/ \E w \in Writers : write_post_insert(w)
    \/ \E w \in Writers : write_post_update(w)
    \/ \E w \in Writers : WritePostCancel(w)
    \/ \E c \in Tags : WriteCategory(c)
    \/ \E c \in Tags, n \in 1..MaxPostCount, fail \in BOOLEAN :
            RemovePost(c, n, fail) /\ UNCHANGED rm

SpecPosts == Init /\ [][NextPosts]_vars

\* a remove-post request among posts written by two users, categories being
\* written and removed
NextOwner ==
    \/ \E c \in Tags : WriteCategory(c)
    \/ \E c \in Tags, fail \in BOOLEAN : RemoveCategory(c, fail)
    \/ \E fail \in BOOLEAN : RemoveCategoryCat(fail)
    \/ \E c \in Tags, parent \in Parents, email \in Users : WritePostAs(c, parent, email)
    \/ \E c \in Tags, n \in 1..MaxPostCount, user \in Users, fail \in BOOLEAN :
            handleRemovePost(c, n, user, fail)
    \/ \E fail \in BOOLEAN : handleRemovePost_RemovePost(fail)

SpecOwner == Init /\ [][NextOwner]_vars

NextSeq ==
    \/ \E c \in Tags : WriteCategory(c)
    \/ \E c \in Tags, parent \in ThreadNums : WritePostSeq(c, parent)
    \/ \E c \in Tags, n \in ThreadNums, fail \in BOOLEAN :
            RemovePost(c, n, fail) /\ UNCHANGED rm

SpecSeq == Init /\ [][NextSeq]_vars

NextRL ==
    \/ \E l \in Limiters, identifier \in Identifiers, resource \in Resources,
          ms \in Durations, fail \in BOOLEAN :
            RateLimit(l, identifier, resource, ms, fail) /\ UNCHANGED <<mw, passed, rm>>
    \/ \E l \in Limiters, fail \in BOOLEAN : RateLimitExpire(l, fail) /\ UNCHANGED <<mw, passed, rm>>
    \/ Tick

SpecRL == Init /\ [][NextRL]_vars

\* the ms a route is registered with: postCooldownMs for "post-post" and a
\* shorter, fixed time for the get routes
RouteMs(resource) == IF resource = <<"p">> THEN MaxMs ELSE 1

\* the store called with identifiers and resources that hold the separator
NextKey ==
    \/ \E l \in Limiters, identifier \in SepIdentifiers, resource \in SepResources,
          ms \in 1..MaxMs :
            RateLimit(l, identifier, resource, ms, FALSE) /\ UNCHANGED <<mw, passed, rm>>
    \/ \E l \in Limiters, fail \in BOOLEAN : RateLimitExpire(l, fail) /\ UNCHANGED <<mw, passed, rm>>
    \/ Tick

SpecKey == Init /\ [][NextKey]_vars

\* requests served through middlewareRateLimit, each in its own goroutine
NextMW ==
    \/ \E l \in Limiters, ip \in Identifiers, resource \in Resources, fail \in BOOLEAN :
            middlewareRateLimit(l, ip, resource, RouteMs(resource), fail)
    \/ \E l \in Limiters, fail \in BOOLEAN : middlewareRateLimit_RateLimit(l, fail)
    \/ \E l \in Limiters, fail \in BOOLEAN : middlewareRateLimit_Expire(l, fail)
    \/ Tick

SpecMW == Init /\ [][NextMW]_vars

\* PostgreSQL runs a statement that is not waiting for a lock, and grants a
\* row lock to its waiters in turn
FairWP ==
    \A w \in Writers :
        /\ SF_vars(write_post_select(w))
        /\ WF_vars(write_post_insert(w))
        /\ WF_vars(write_post_update(w))

SpecFair == Init /\ [][Next]_vars /\ FairWP

\* ------------------------------------------------------------------------
\* Properties
\* ------------------------------------------------------------------------

\* the WritePost call of w commits in this step
Commits(w) == wp[w].pc = "update" /\ wp'[w].pc = "idle" /\ ret'.err = "nil"

\* the WritePost call of w returns in this step
Returns(w) == wp[w].pc # "idle" /\ wp'[w].pc = "idle"

\* C1: the successful WritePost calls on a category are numbered without
\* duplicate and without gap in every interleaving: the i-th call to commit
\* since the category was written got DefaultPostCount + i - 1 and the counter
\* stands at the next number, so that N calls that find the counter at k get
\* exactly k .. k+N-1; and every committed WritePost(C, 0) raises
\* GetThreadCount(C) by exactly one.
C1_NoDuplicateNoGap ==
    /\ [](\A c \in DOMAIN cats :
            /\ \A i \in 1..Len(assigned[c]) : assigned[c][i] = DefaultPostCount + i - 1
            /\ cats[c] = DefaultPostCount + Len(assigned[c]))
    /\ [][\A w \in Writers, c \in Tags :
            Commits(w) /\ wp[w].cat = c /\ wp[w].parent = 0
                => GetThreadCount(c)' = GetThreadCount(c) + 1]_vars

\* two WritePost(C, 0) calls, in flight together, have both committed
C1_Witness ==
    \E c \in DOMAIN cats :
        /\ assigned[c] = <<1, 2>>
        /\ GetThreadCount(c) = 2
        /\ ret.op = "WritePost" /\ ret.err = "nil"

\* C2: a write_post that finds no cats row for its tag ends with ErrNotFound
\* (with the context error when the call is cancelled first), never with
\* success, and the step adds no post and changes no counter.
C2_NoCategoryNotFound ==
    [][\A w \in Writers :
        wp[w].pc = "select" /\ wp[w].cat \notin DOMAIN cats /\ wp'[w] # wp[w]
            => /\ wp'[w].pc = "idle"
               /\ ret'.op = "WritePost"
               /\ ret'.err # "nil"
               /\ ~WritePostCancel(w) => ret'.err = "ErrNotFound"
               /\ posts' = posts
               /\ cats' = cats]_vars

\* WritePost returned ErrNotFound while no category exists at all
C2_Witness ==
    /\ DOMAIN cats = {}
    /\ ret.op = "WritePost" /\ ret.err = "ErrNotFound"

\* C3: at its INSERT a reply to parent p of category C is rejected with
\* ErrNotFound, nothing stored, when no post of C is numbered p, whatever the
\* other categories hold; it is accepted when a thread root numbered p exists
\* in C, and the call then commits unless it is cancelled.
C3_ParentMustExist ==
    [][\A w \in Writers :
        wp[w].pc = "insert" /\ wp[w].parent # 0 /\ wp'[w] # wp[w] /\ ~WritePostCancel(w)
            => /\ (~\E p \in posts : p.cat = wp[w].cat /\ p.num = wp[w].parent)
                    => /\ wp'[w].pc = "idle"
                       /\ ret'.op = "WritePost" /\ ret'.err = "ErrNotFound"
                       /\ posts' = posts /\ cats' = cats
               /\ (\E p \in posts : p.cat = wp[w].cat /\ p.num = wp[w].parent /\ p.parent = 0)
                    => wp'[w].pc = "update"]_vars
    /\ [][\A w \in Writers :
            wp[w].pc = "update" /\ wp'[w] # wp[w] /\ ~WritePostCancel(w)
                => /\ ret'.op = "WritePost" /\ ret'.err = "nil"
                   /\ [cat |-> wp[w].cat, num |-> wp[w].post_num, parent |-> wp[w].parent] \in posts']_vars

\* a reply to a number that only the other category has is at its INSERT,
\* while a reply to a thread root of its own category has been stored
C3_Witness ==
    \E w \in Writers, c \in Tags, q \in posts, r \in posts :
        /\ wp[w].pc = "insert" /\ wp[w].cat = c /\ wp[w].parent # 0
        /\ q.cat # c /\ q.num = wp[w].parent
        /\ ~\E p \in posts : p.cat = c /\ p.num = wp[w].parent
        /\ r.parent # 0
        /\ \E o \in posts : o.cat = r.cat /\ o.num = r.parent /\ o.parent = 0

\* C4: the committed state never shows half a write_post: no stored post is
\* numbered with the current counter of its category; the counter of a
\* category moves only by one and together with the post of the old number
\* becoming visible; a post becomes visible only together with the counter
\* moving past it; and a WritePost that returns an error leaves cats and
\* posts as they were.
C4_AllOrNothing ==
    /\ [](\A p \in posts : p.cat \in DOMAIN cats => p.num # cats[p.cat])
    /\ [][\A c \in DOMAIN cats \cap DOMAIN cats' :
            cats'[c] # cats[c]
                => /\ cats'[c] = cats[c] + 1
                   /\ \E p \in posts' \ posts : p.cat = c /\ p.num = cats[c]]_vars
    /\ [][\A p \in posts' \ posts :
            p.cat \in DOMAIN cats /\ p.cat \in DOMAIN cats' /\ cats[p.cat] = p.num
                /\ cats'[p.cat] = p.num + 1]_vars
    /\ [][\A w \in Writers :
            Returns(w) /\ ret'.err # "nil" => posts' = posts /\ cats' = cats]_vars

\* a transaction has inserted a reply and is not committed: neither the row
\* nor a moved counter is visible; and the call that returned last failed
C4_Witness ==
    \E w \in Writers :
        /\ wp[w].pc = "update" /\ wp[w].parent # 0
        /\ cats[wp[w].cat] = wp[w].post_num
        /\ ~\E p \in posts : p.cat = wp[w].cat /\ p.num = wp[w].post_num
        /\ ret.op = "WritePost" /\ ret.err = "ErrNotFound"

\* what RemovePost(c, n) is to remove
C5_Expected(c, n) ==
    LET row == {p \in posts : p.cat = c /\ p.num = n} IN
    IF \E p \in row : p.parent = 0
    THEN row \cup {q \in posts : q.cat = c /\ q.parent = n}
    ELSE row

C6_RemoveCategoryCount ==
    /\ [][\A c \in Tags :
            rc.pc = "idle" /\ RemoveCategory(c, FALSE)
                => /\ rc'.affected = Cardinality(PostsOf(c))
                   /\ posts' = posts \ PostsOf(c)
                   /\ cats' = cats]_vars
    /\ [][RemoveCategoryCat(FALSE) /\ rc.tag \in DOMAIN cats /\ PostsOf(rc.tag) = {}
            => /\ ret'.op = "RemoveCategory" /\ ret'.err = "nil"
               /\ ret'.n = rc.affected + 1
               /\ rc.tag \notin DOMAIN cats'
               /\ \A p \in posts' : p.cat # rc.tag]_vars
    /\ [][RemoveCategoryCat(FALSE) /\ rc.tag \notin DOMAIN cats /\ rc.affected = 0
            => /\ ret'.op = "RemoveCategory" /\ ret'.err = "nil"
               /\ ret'.n = 0
               /\ cats' = cats /\ posts' = posts]_vars

\* RemoveCategory returned 3 without error: a category of two posts is gone
C6_Witness ==
    /\ ret.op = "RemoveCategory" /\ ret.err = "nil" /\ ret.n = 3
    /\ \E c \in Tags : c \notin DOMAIN cats /\ PostsOf(c) = {}

\* C7 as claimed: RemoveCategory is one atomic unit, no state shows the posts
\* of the category deleted by the call while its cats row still exists, nor
\* the cats row gone while posts of it remain.
C7_RemoveCategoryAtomic ==
    \A c \in Tags :
        /\ ~(rc.pc = "delCat" /\ rc.tag = c /\ rc.affected > 0
                /\ c \in DOMAIN cats /\ PostsOf(c) = {})
        /\ ~(c \notin DOMAIN cats /\ PostsOf(c) # {})

\* C8 as claimed: a RemoveCategory or RemovePost that returns an error has
\* removed nothing: the rows it reports as affected, and the rows its trigger
\* removed, are none.
C8_ErrorMeansRollback ==
    ret.op \in {"RemoveCategory", "RemovePost"} /\ ret.err # "nil"
        => ret.n = 0 /\ ret.cascaded = 0

\* C9: for every identifier and resource, IsRateLimited is false while no
\* RateLimit call has been made for them; after a RateLimit call with t > 0
\* that ran alone on its key has returned, it is true as long as less than
\* t ms have passed, and false once more than t ms have passed, if no other
\* RateLimit call on the key has started since.
C9_LimitedForT ==
    \A p \in Pairs :
        /\ ~hist[p].called => ~IsRateLimited(p[1], p[2])
        /\ hist[p].since >= 0 /\ hist[p].since < hist[p].ms => IsRateLimited(p[1], p[2])
        /\ hist[p].since > hist[p].ms => ~IsRateLimited(p[1], p[2])

\* more than t ms after RateLimit returned the pair is not limited any more,
\* while the other resource of the same identifier was never limited
C9_Witness ==
    \E p \in Pairs, q \in Pairs :
        /\ hist[p].ms > 0 /\ hist[p].since > hist[p].ms
        /\ ~IsRateLimited(p[1], p[2])
        /\ ~hist[q].called

\* C10: RateLimit with ms <= 0 returns nil and leaves the store as it is:
\* no key is created, removed or given another time to live, so that
\* IsRateLimited answers for every pair what it answered before.
C10_NonPositiveIsNoop ==
    [][\A l \in Limiters, identifier \in Identifiers, resource \in Resources,
         ms \in Durations, fail \in BOOLEAN :
            ms <= 0 /\ RateLimit(l, identifier, resource, ms, fail)
                => /\ ret'.op = "RateLimit" /\ ret'.err = "nil"
                   /\ redis' = redis
                   /\ \A p \in Pairs : IsRateLimited(p[1], p[2])' = IsRateLimited(p[1], p[2])]_vars

\* RateLimit with ms <= 0 has returned while an entry with a running time to
\* live exists: it was neither removed nor refreshed
C10_Witness ==
    /\ ret.op = "RateLimit" /\ ret.ms <= 0 /\ ret.err = "nil"
    /\ \E k \in DOMAIN redis : redis[k] # NoTTL /\ redis[k] < MaxMs

\* C11: for one identifier and two distinct resources r1 # r2, no step of a
\* RateLimit(id, r1, t) call, neither its SET nor its PEXPIRE, changes what
\* IsRateLimited(id, r2) answers.
C11_PerResource ==
    [][\A l \in Limiters, identifier \in Identifiers, r1 \in Resources, r2 \in Resources :
        /\ r1 # r2
        /\ \/ \E ms \in Durations, fail \in BOOLEAN : RateLimit(l, identifier, r1, ms, fail)
           \/ /\ rl[l].pc = "pexpire" /\ rl[l].id = identifier /\ rl[l].res = r1
              /\ \E fail \in BOOLEAN : RateLimitExpire(l, fail)
        => IsRateLimited(identifier, r2)' = IsRateLimited(identifier, r2)]_vars

\* RateLimit has returned for one resource of an identifier, which is limited,
\* while the other resource of the identifier, never limited, is not
C11_Witness ==
    /\ ret.op = "RateLimit" /\ ret.ms > 0 /\ ret.err = "nil"
    /\ \E identifier \in Identifiers, r1 \in Resources, r2 \in Resources :
        /\ r1 # r2
        /\ IsRateLimited(identifier, r1) /\ redis[getRateLimitResourceID(identifier, r1)] # NoTTL
        /\ ~hist[<<identifier, r2>>].called
        /\ ~IsRateLimited(identifier, r2)

\* the next statement of the write_post of w cannot run
Blocked(w) ==
    /\ wp[w].pc # "idle"
    /\ ~ENABLED (write_post_select(w) \/ write_post_insert(w) \/ write_post_update(w))

\* C12: while a WritePost to category A holds the row lock of A, a WritePost
\* to another category B is never blocked, at its SELECT, at its INSERT or at
\* its UPDATE and commit, unless a third call holds the row lock of B: it can
\* run each of its statements to the commit.
C12_OtherCategoryNotBlocked ==
    \A w1 \in Writers, w2 \in Writers :
        /\ w1 # w2
        /\ wp[w1].pc \in {"insert", "update"} /\ lock[wp[w1].cat] = w1
        /\ wp[w2].pc # "idle" /\ wp[w2].cat # wp[w1].cat
        /\ \A o \in Writers \ {w1, w2} : lock[wp[w2].cat] # o
        => ~Blocked(w2)

\* two WritePost calls hold the row locks of two categories at once, each
\* about to commit
C12_Witness ==
    \E w1 \in Writers, w2 \in Writers :
        /\ wp[w1].pc = "update" /\ wp[w2].pc = "update"
        /\ wp[w1].cat # wp[w2].cat
        /\ lock[wp[w1].cat] = w1 /\ lock[wp[w2].cat] = w2

\* C13: no deadlock among concurrent WritePost calls, on one category or on
\* several: a call that holds a row lock never waits, and a call that waits,
\* waits for the row lock of its category held by a call that does not wait;
\* and when statements that can run do run and the row lock is granted to
\* its waiters in turn, every WritePost call returns, committed or failed.
C13_NoDeadlock ==
    /\ [](\A w \in Writers :
            /\ wp[w].pc \in {"insert", "update"} => ~Blocked(w)
            /\ Blocked(w) =>
                    \E o \in Writers \ {w} :
                        /\ lock[wp[w].cat] = o
                        /\ wp[o].pc \in {"insert", "update"} /\ wp[o].cat = wp[w].cat
                        /\ ~Blocked(o))
    /\ \A w \in Writers : (wp[w].pc # "idle") ~> (wp[w].pc = "idle")

\* a call waits at its SELECT for the row lock that another call on the same
\* category holds
C13_Witness ==
    \E w \in Writers, o \in Writers :
        /\ Blocked(w) /\ wp[w].pc = "select"
        /\ lock[wp[w].cat] = o /\ wp[o].pc = "update"

\* C14: within the life of a cats row post numbers follow the order in which
\* the row lock is granted: the number a write_post reads when it is granted
\* the lock is greater than the number of every call that was granted the
\* lock before it, committed or still in its transaction; the call keeps that
\* number to its commit and commits its post under it.
C14_LockOrder ==
    /\ [][\A w \in Writers, c \in Tags :
            wp[w].pc = "select" /\ wp'[w].pc = "insert" /\ wp[w].cat = c
                => /\ lock[c] # w /\ lock'[c] = w
                   /\ \A i \in 1..Len(assigned[c]) : assigned[c][i] < wp'[w].post_num
                   /\ \A o \in Writers \ {w} :
                        wp[o].pc \in {"insert", "update"} /\ wp[o].cat = c
                            => wp[o].post_num < wp'[w].post_num]_vars
    /\ [][\A w \in Writers :
            wp[w].pc = "insert" /\ wp'[w].pc = "update"
                => wp'[w].post_num = wp[w].post_num /\ wp'[w].cat = wp[w].cat]_vars
    /\ [][\A w \in Writers, c \in Tags :
            Commits(w) /\ wp[w].cat = c
                => /\ \E p \in posts' \ posts : p.cat = c /\ p.num = wp[w].post_num
                   /\ assigned'[c] = Append(assigned[c], wp[w].post_num)]_vars

\* the second call to be granted the row lock of a category holds number 2
\* in its transaction after the first committed number 1
C14_Witness ==
    \E w \in Writers, c \in DOMAIN cats :
        /\ lock[c] = w /\ wp[w].pc = "update" /\ wp[w].cat = c /\ wp[w].post_num = 2
        /\ assigned[c] = <<1>>
        /\ \E p \in posts : p.cat = c /\ p.num = 1
        /\ ret.op = "WritePost" /\ ret.err = "nil"

\* the numbers committed by write_post calls since the cats row of c was inserted
Committed(c) == {assigned[c][i] : i \in 1..Len(assigned[c])}

\* C15: the parent check of a reply sees the posts of committed transactions
\* only: every post another call can see was committed by its write_post, and
\* a reply passes its INSERT only if a post of its category carrying the
\* parent number is stored and was committed; the row a transaction has
\* inserted and not committed, or has rolled back, never lets a reply pass.
C15_CommittedParentsOnly ==
    /\ [](\A p \in posts : p.cat \in DOMAIN cats /\ p.num \in Committed(p.cat))
    /\ [][\A w \in Writers :
            wp[w].pc = "insert" /\ wp[w].parent # 0 /\ wp'[w].pc = "update"
                => /\ wp[w].parent \in Committed(wp[w].cat)
                   /\ \E p \in posts : p.cat = wp[w].cat /\ p.num = wp[w].parent]_vars
    /\ [][\A w \in Writers :
            /\ wp[w].pc = "insert" /\ wp[w].parent # 0 /\ wp'[w] # wp[w]
            /\ wp[w].parent \notin Committed(wp[w].cat)
            => wp'[w].pc = "idle" /\ ret'.err # "nil" /\ posts' = posts]_vars

\* a reply is at its parent check while a transaction on the other category
\* holds an uncommitted row carrying the parent number, which no committed
\* post of the reply's category carries
C15_Witness ==
    \E w \in Writers, o \in Writers :
        /\ wp[w].pc = "insert" /\ wp[w].parent # 0
        /\ wp[o].pc = "update" /\ wp[o].post_num = wp[w].parent /\ wp[o].cat # wp[w].cat
        /\ wp[w].parent \notin Committed(wp[w].cat)
        /\ ret.op = "WritePost" /\ ret.err = "error"

\* C16: the post_count of a cats row never decreases: every step leaves it
\* as it is or one higher; RemovePost, removing a thread or a reply, and a
\* WritePost that returns an error leave it as it is.
C16_CounterMonotonic ==
    /\ [][\A c \in DOMAIN cats \cap DOMAIN cats' :
            cats'[c] = cats[c] \/ cats'[c] = cats[c] + 1]_vars
    /\ [][ret'.op = "RemovePost" /\ posts' # posts /\ posts' \subseteq posts
            => cats' = cats]_vars
    /\ [][\A w \in Writers : Returns(w) /\ ret'.err # "nil" => cats' = cats]_vars

\* RemovePost has removed a post of a category whose counter stays above the
\* numbers given out, more than one ahead of the posts that are left
C16_Witness ==
    /\ ret.op = "RemovePost" /\ ret.err = "nil" /\ ret.n = 1
    /\ \E c \in DOMAIN cats :
        /\ cats[c] = DefaultPostCount + Len(assigned[c])
        /\ cats[c] > DefaultPostCount + Cardinality(PostsOf(c))

\* C17: within the life of a cats row no post number is given out twice: the
\* number a write_post reads under the row lock, and the number it commits,
\* was committed by no earlier write_post of the category, whether the post
\* that carried it is still stored or was deleted.
C17_NoReuse ==
    /\ [](\A c \in DOMAIN cats : Cardinality(Committed(c)) = Len(assigned[c]))
    /\ [][\A w \in Writers :
            wp[w].pc = "select" /\ wp'[w].pc = "insert"
                => wp'[w].post_num \notin Committed(wp[w].cat)]_vars
    /\ [][\A w \in Writers :
            Commits(w) => wp[w].post_num \notin Committed(wp[w].cat)]_vars

\* the post numbered 1 was deleted by RemovePost and the next write_post of
\* the category holds number 2
C17_Witness ==
    \E w \in Writers, c \in DOMAIN cats :
        /\ wp[w].pc = "update" /\ wp[w].cat = c /\ wp[w].post_num = 2
        /\ assigned[c] = <<1>> /\ PostsOf(c) = {}
        /\ ret.op = "RemovePost" /\ ret.n = 1

\* C18 as claimed: replies are flat, in every reachable state every post with
\* parent p # 0 has a stored post numbered p in its category whose own
\* parent is 0, so that no accepted reply names a reply as its parent.
C18_RepliesFlat ==
    \A p \in posts :
        p.parent # 0
            => \E q \in posts : q.cat = p.cat /\ q.num = p.parent /\ q.parent = 0

\* n is the number of a stored thread root of category c
IsThreadRoot(c, n) == \E p \in posts : p.cat = c /\ p.num = n /\ p.parent = 0

\* C19 as claimed: GetThreadView(C, n) returns ErrNotFound whenever C has no
\* cats row or n is not the number of a stored thread root of C, n = 0 and
\* the number of a reply included.
C19_ThreadViewNotFound ==
    \A c \in Tags, n \in ThreadNums :
        c \notin DOMAIN cats \/ ~IsThreadRoot(c, n)
            => GetThreadView(c, n).err = "ErrNotFound"

\* C20: for a stored thread root n of category C with R replies,
\* GetThreadView(C, n) returns no error and exactly R + 1 posts: the root and
\* the posts of C whose parent is n, each once, in ascending num order, and
\* no post of another thread or of another category.
C20_ThreadViewPosts ==
    \A c \in Tags, n \in ThreadNums :
        IsThreadRoot(c, n)
            => LET view == GetThreadView(c, n)
                   replies == {p \in posts : p.cat = c /\ p.parent = n} IN
               /\ view.err = "nil"
               /\ Len(view.posts) = Cardinality(replies) + 1
               /\ {view.posts[i] : i \in 1..Len(view.posts)}
                    = {[cat |-> c, num |-> n, parent |-> 0]} \cup replies
               /\ \A i \in 1..(Len(view.posts) - 1) : view.posts[i].num < view.posts[i + 1].num
               /\ \A i \in 1..Len(view.posts) :
                    /\ view.posts[i].cat = c
                    /\ view.posts[i].num = n \/ view.posts[i].parent = n

\* a thread root with a reply, in a category that holds another thread, while
\* the other category holds a post of the same number
C20_Witness ==
    \E c \in Tags, n \in ThreadNums, m \in ThreadNums :
        /\ n # m /\ IsThreadRoot(c, n) /\ IsThreadRoot(c, m)
        /\ \E p \in posts : p.cat = c /\ p.parent = n
        /\ Len(GetThreadView(c, n).posts) = 2
        /\ \E q \in posts : q.cat # c /\ q.num = n

\* C21: GetCategoryView(C) returns ErrNotFound when C has no cats row;
\* otherwise it returns no error, the category C and exactly the posts of C
\* whose parent is 0, each once, in ascending num order, and never a reply.
C21_CategoryView ==
    \A c \in Tags :
        LET view == GetCategoryView(c)
            roots == {p \in posts : p.cat = c /\ p.parent = 0} IN
        IF c \notin DOMAIN cats
        THEN view.err = "ErrNotFound"
        ELSE /\ view.err = "nil" /\ view.tag = c
             /\ Len(view.threads) = Cardinality(roots)
             /\ {view.threads[i] : i \in 1..Len(view.threads)} = roots
             /\ \A i \in 1..(Len(view.threads) - 1) :
                    view.threads[i].num < view.threads[i + 1].num
             /\ \A i \in 1..Len(view.threads) : view.threads[i].parent = 0

\* a category holds two threads and a reply, while the other tag has no cats
\* row or holds a thread of its own
C21_Witness ==
    \E c \in DOMAIN cats :
        /\ Len(GetCategoryView(c).threads) = 2
        /\ \E p \in posts : p.cat = c /\ p.parent # 0
        /\ \E d \in Tags \ {c} :
            \/ d \notin DOMAIN cats
            \/ \E q \in posts : q.cat = d /\ q.parent = 0

\* C22: a category just written has its counter at 1; the k-th WritePost to
\* succeed on it stores exactly one post, numbered k; a WritePost that fails
\* stores nothing and uses up no number, so the next one to succeed gets the
\* number the failed one would have had.
C22_FirstIsOneFailuresFree ==
    /\ [][\A c \in Tags :
            WriteCategory(c) /\ ret'.err = "nil"
                => c \notin DOMAIN cats /\ cats'[c] = 1 /\ assigned'[c] = << >>]_vars
    /\ [][\A c \in Tags, parent \in ThreadNums :
            WritePostSeq(c, parent)
                => IF ret'.err = "nil"
                   THEN /\ posts' = posts \cup
                                {[cat |-> c, num |-> Len(assigned[c]) + 1, parent |-> parent]}
                        /\ posts' # posts
                        /\ Len(assigned'[c]) = Len(assigned[c]) + 1
                   ELSE /\ posts' = posts /\ cats' = cats
                        /\ assigned' = assigned]_vars

\* a WritePost has failed on a reply to a missing parent after the first post
\* of the category: the counter still stands at 2
C22_Witness ==
    /\ ret.op = "WritePost" /\ ret.err = "ErrNotFound"
    /\ DOMAIN cats = Tags
    /\ \E c \in Tags : cats[c] = 2 /\ assigned[c] = <<1>> /\ Cardinality(PostsOf(c)) = 1

\* C23: a WritePost whose context is cancelled or times out before the commit,
\* waiting for the row lock, holding it before the INSERT or after the INSERT,
\* returns an error and leaves posts and the counters as they were before the
\* call: the row it had inserted is not stored and its row lock is released.
C23_CancelRollsBack ==
    [][\A w \in Writers :
        WritePostCancel(w)
            => /\ ret'.op = "WritePost" /\ ret'.err # "nil"
               /\ posts' = posts /\ cats' = cats
               /\ ~\E p \in posts' : p.cat = wp[w].cat /\ p.num = wp[w].post_num
               /\ wp'[w].pc = "idle"
               /\ \A t \in Tags : lock'[t] # w]_vars

\* a WritePost has returned the error of its context and the category it was
\* writing to is as it was written: no post, counter at 1, lock free
C23_Witness ==
    /\ ret.op = "WritePost" /\ ret.err = "error"
    /\ \A w \in Writers : wp[w].pc = "idle"
    /\ \E c \in DOMAIN cats :
        cats[c] = DefaultPostCount /\ PostsOf(c) = {} /\ lock[c] = NoWriter

\* C24: the rate-limit middleware invokes the wrapped handler only for a request
\* whose IsRateLimited call returned false without error, and calls RateLimit
\* for no other request; a request whose IsRateLimited call returned true is
\* answered 429, its handler is not invoked and RateLimit is not called for
\* it: the limiter's store is left as it was.
C24_HandlerOnlyWhenNotLimited ==
    /\ [](\A l \in Limiters :
            /\ mw[l].next => mw[l].isLimited = "false"
            /\ mw[l].pc # "idle" \/ mw[l].rateLimit # "none" => mw[l].isLimited = "false"
            /\ mw[l].isLimited = "true"
                => mw[l].pc = "idle" /\ mw[l].status = 429 /\ ~mw[l].next)
    /\ [][\A l \in Limiters, ip \in Identifiers, resource \in Resources, ms \in Durations :
            IsRateLimited(ip, resource) /\ middlewareRateLimit(l, ip, resource, ms, FALSE)
                => /\ mw'[l].isLimited = "true" /\ mw'[l].status = 429
                   /\ redis' = redis /\ rl' = rl /\ hist' = hist /\ ret' = ret]_vars

\* one request has reached its handler and a later one for the same ip and
\* resource was answered 429
C24_Witness ==
    \E l \in Limiters, o \in Limiters :
        /\ mw[l].next /\ mw[l].isLimited = "false" /\ mw[l].rateLimit = "nil"
        /\ mw[o].isLimited = "true" /\ mw[o].status = 429 /\ ~mw[o].next
        /\ mw[o].ip = mw[l].ip /\ mw[o].res = mw[l].res

\* C25: a request whose IsRateLimited call or whose RateLimit call returned an
\* error is answered 500 and its handler is not invoked.
C25_LimiterErrorFailsRequest ==
    \A l \in Limiters :
        mw[l].isLimited = "error" \/ mw[l].rateLimit = "error"
            => mw[l].pc = "idle" /\ mw[l].status = 500 /\ ~mw[l].next

\* one request was answered 500 after its IsRateLimited call failed and one
\* after its RateLimit call failed
C25_Witness ==
    \E l \in Limiters, o \in Limiters :
        /\ mw[l].isLimited = "error" /\ mw[l].status = 500
        /\ mw[o].isLimited = "false" /\ mw[o].rateLimit = "error" /\ mw[o].status = 500

\* the handler of the request of l is invoked in this step
NextInvoked(l) == mw[l].pc # "idle" /\ mw'[l].pc = "idle" /\ mw'[l].next

\* C26: a request that overlapped no other request for its ip and resource
\* reaches the handler only when the last such request that reached it with
\* ms > 0 did so at least ms milliseconds before: at most one of them passes
\* in a window of ms. (That two overlapping requests with ms > 0 both observe
\* IsRateLimited = false and both reach the handler is the state C26_Witness.)
C26_OnePerWindowWhenSequential ==
    [][\A l \in Limiters :
        NextInvoked(l) /\ mw[l].solo
            => LET p == <<mw[l].ip, mw[l].res>> IN
               ~(passed[p].since >= 0 /\ passed[p].since < passed[p].ms)]_vars

\* two requests for the same ip and resource with ms > 0 overlapped, both saw
\* IsRateLimited = false and both reached the handler
C26_Witness ==
    \E l \in Limiters, o \in Limiters :
        /\ l # o
        /\ mw[l].ip = mw[o].ip /\ mw[l].res = mw[o].res
        /\ mw[l].ms > 0 /\ mw[o].ms > 0
        /\ ~mw[l].solo /\ ~mw[o].solo
        /\ mw[l].isLimited = "false" /\ mw[o].isLimited = "false"
        /\ mw[l].next /\ mw[o].next

\* C27: RemovePost(C, n) without error on a stored thread root n of C that
\* has k >= 1 replies returns 1, although k + 1 rows are gone from posts:
\* the root and its k replies.
C27_RootCountsOne ==
    [][\A c \in Tags, n \in ThreadNums :
        LET replies == {q \in posts : q.cat = c /\ q.parent = n} IN
        IsThreadRoot(c, n) /\ replies # {} /\ RemovePost(c, n, FALSE)
            => /\ ret'.op = "RemovePost" /\ ret'.err = "nil" /\ ret'.n = 1
               /\ posts' \subseteq posts
               /\ Cardinality(posts) - Cardinality(posts') = 1 + Cardinality(replies)
               /\ ~\E q \in posts' : q.cat = c /\ (q.num = n \/ q.parent = n)]_vars

\* RemovePost has returned 1 for a thread root that went with its two replies
C27_Witness ==
    /\ ret.op = "RemovePost" /\ ret.err = "nil" /\ ret.n = 1 /\ ret.cascaded = 2
    /\ \E c \in DOMAIN cats : cats[c] = 4 /\ PostsOf(c) = {}

\* C28: whatever WritePost returned, handleCreatePost responds 404 when it was
\* ErrNotFound, 500 with postFailMessage, which is not the text of the error,
\* when it was any other error, and 200 exactly when it was no error.
C28_CreatePostFailureShapes ==
    ret.op = "WritePost"
        => LET res == handleCreatePost(ret.err) IN
           /\ ret.err = "ErrNotFound" => res.status = 404
           /\ ret.err \notin {"nil", "ErrNotFound"}
                => /\ res.status = 500 /\ res.message = postFailMessage
                   /\ res.message # ErrorText(ret.err)
           /\ res.status = 200 <=> ret.err = "nil"
           /\ res.status \in {200, 404, 500}

\* a WritePost whose context ended has returned its error, answered with 500,
\* after one that was answered 200 had stored a post
C28_Witness ==
    /\ ret.op = "WritePost" /\ ret.err = "error"
    /\ handleCreatePost(ret.err).status = 500
    /\ posts # {}

\* C29 as claimed: in every state reachable by interleaving WritePost calls
\* with RemovePost calls, every stored post with parent p # 0 has a stored
\* post numbered p in its category, so that a reply whose check_reply passed
\* before its root was deleted does not outlive the root.
C29_NoOrphanReplies ==
    \A p \in posts :
        p.parent # 0 => \E q \in posts : q.cat = p.cat /\ q.num = p.parent

C31_EveryKeyHasTTL ==
    \A k \in DOMAIN redis :
        redis[k] = NoTTL
            => \E l \in Limiters :
                rl[l].pc = "pexpire" /\ getRateLimitResourceID(rl[l].id, rl[l].res) = k

\* C32: a request answered 429 leaves the limiting entry as it is, and as
\* long as no request on the key has seen IsRateLimited = false since the
\* last request that overlapped no other was accepted with ms > 0, the pair
\* is limited while less than ms milliseconds have passed since and
\* unlimited once more than ms have passed, whatever the number of requests
\* answered 429 in between.
C32_RejectedDoesNotRefresh ==
    /\ [](\A p \in Pairs :
            passed[p].last
                => /\ passed[p].since < passed[p].ms => IsRateLimited(p[1], p[2])
                   /\ passed[p].since > passed[p].ms => ~IsRateLimited(p[1], p[2]))
    /\ [][\A l \in Limiters :
            mw'[l] # mw[l] /\ mw'[l].status = 429 => redis' = redis /\ rl' = rl]_vars

\* more than ms after the accepted request the pair is unlimited, MaxRejected
\* requests having been answered 429 in between
C32_Witness ==
    \E p \in Pairs :
        /\ passed[p].last /\ passed[p].rejected = MaxRejected
        /\ passed[p].since > passed[p].ms
        /\ ~IsRateLimited(p[1], p[2])

C34_CounterAbovePosts ==
    /\ \A c \in DOMAIN cats :
        /\ cats[c] >= 1
        /\ \A p \in PostsOf(c) : p.num < cats[c]
    /\ \A w \in Writers :
        wp[w].pc \in {"insert", "update"}
            => ~\E p \in posts : p.cat = wp[w].cat /\ p.num = wp[w].post_num

\* post 1 of a category is stored, its counter is at 2, and a write_post
\* holding the row lock is about to insert number 2
C34_Witness ==
    \E c \in DOMAIN cats, w \in Writers :
        /\ cats[c] = 2
        /\ {p.num : p \in PostsOf(c)} = {1}
        /\ wp[w].pc = "insert" /\ wp[w].cat = c /\ wp[w].post_num = 2

\* C35: no step of a WritePost call to category A, from the call to its
\* return with or without error, changes the counter of another category B,
\* whether B has a cats row, or the posts of B.
C35_OtherCategoryUnchanged ==
    [][\A w \in Writers, b \in Tags :
        /\ wp'[w] # wp[w]
        /\ b # (IF wp[w].pc = "idle" THEN wp'[w].cat ELSE wp[w].cat)
        => /\ (b \in DOMAIN cats') = (b \in DOMAIN cats)
           /\ b \in DOMAIN cats => cats'[b] = cats[b]
           /\ {p \in posts' : p.cat = b} = PostsOf(b)
           /\ assigned'[b] = assigned[b]]_vars

\* a WritePost to one category has committed its post 1, and a reply to post 1
\* of the other category, which has no post, has failed and left it so
C35_Witness ==
    \E a \in DOMAIN cats, b \in DOMAIN cats :
        /\ a # b
        /\ ret.op = "WritePost" /\ ret.err = "ErrNotFound"
        /\ cats[a] = 2 /\ Cardinality(PostsOf(a)) = 1
        /\ cats[b] = DefaultPostCount /\ PostsOf(b) = {}
        /\ \A w \in Writers : wp[w].pc = "idle"

\* C36 as claimed: handleRemovePost calls RemovePost only for a request whose
\* EmailMatches returned true, a request answered 401 removes nothing, and
\* whatever other requests do between the check and the delete, the post
\* the delete removes was written with the email of the requester.
C36_RemovesOwnPostOnly ==
    [][/\ rm.pc = "idle" /\ rm'.pc = "remove" => EmailMatches(rm'.cat, rm'.num, rm'.user)
       /\ rm.pc = "idle" /\ rm' # rm /\ rm'.status = 401 => posts' = posts
       /\ rm.pc = "remove" /\ rm'.pc = "idle"
            => \A p \in posts \ posts' :
                p.cat = rm.cat /\ p.num = rm.num => p.email = rm.user]_vars

\* C37: the counter belongs to the cats row: a cats row that comes into being,
\* also for a tag that had a row and posts before, has post_count 1 and no
\* post, and the post written next to it gets num 1, whether or not a post
\* of a removed category of the same tag had that number.
C37_CounterRestartsWithRow ==
    /\ [][\A c \in Tags :
            c \notin DOMAIN cats /\ c \in DOMAIN cats'
                => cats'[c] = DefaultPostCount /\ {p \in posts' : p.cat = c} = {}]_vars
    /\ [][\A p \in posts' \ posts :
            p.cat \in DOMAIN cats /\ PostsOf(p.cat) = {} /\ assigned[p.cat] = << >>
                => p.num = 1 /\ cats'[p.cat] = 2]_vars

\* a request to remove post 1 of a category had its email matched; the
\* category was then removed and written again, and its post 1 is now a post
\* written by another user: the number was given out twice
C37_Witness ==
    /\ rm.pc = "remove" /\ rm.num = 1
    /\ rm.cat \in DOMAIN cats /\ cats[rm.cat] = 2
    /\ PostsOf(rm.cat) # {}
    /\ \A p \in PostsOf(rm.cat) : p.num = 1 /\ p.email # rm.user
====
